---------------------------- MODULE Spec2Model ----------------------------
(***************************************************************************)
(* The goose memory store: the file-backed MCP memory server               *)
(* (crates/goose-mcp-memory/src/memory-server/index.ts) and the            *)
(* localStorage-backed MemoryManager, driven by the same requests.         *)
(*                                                                         *)
(* A JavaScript string is a sequence of one-character strings, so that     *)
(* split, trim, includes, startsWith and join are computed as the code     *)
(* computes them.  A path is a sequence of segments, each a string.        *)
(***************************************************************************)
EXTENDS Naturals, Sequences, FiniteSets, TLC

VARIABLES
    files,          \* the file system: path |-> content of the file
    localStorage,   \* the browser storage: key |-> value
    stored,         \* the <<category, is_global>> stored and not removed since
    last,           \* the last tool call
    reply,          \* what each implementation answered to it
    ops,            \* the number of tool calls served
    inflight        \* the calls the file-backed server runs concurrently

vars == <<files, localStorage, stored, last, reply, ops, inflight>>

(***************************************************************************)
(* JavaScript string primitives                                            *)
(***************************************************************************)
NL == "\n"

SP == " "

\* A delimiter of one line break.
LineBreak == <<NL>>

\* The delimiter '\n\n' of the encoded category body.
Delimiter == <<NL, NL>>

\* String.prototype.trim's white space, within the alphabet of the model.
IsWhiteSpace(c) == c \in {SP, NL}

\* s.startsWith(p, i - 1), positions counted from 1.
StartsWithAt(s, p, i) ==
    /\ i + Len(p) - 1 <= Len(s)
    /\ \A k \in 1..Len(p) : s[i + k - 1] = p[k]

StartsWith(s, p) == StartsWithAt(s, p, 1)

EndsWith(s, p) == Len(p) <= Len(s) /\ StartsWithAt(s, p, Len(s) - Len(p) + 1)

\* s.indexOf(p, i - 1) + 1: the first position of p in s from i on, 0 when
\* there is none.
RECURSIVE IndexFrom(_, _, _)
IndexFrom(s, p, i) ==
    IF i + Len(p) - 1 > Len(s) THEN 0
    ELSE IF StartsWithAt(s, p, i) THEN i
    ELSE IndexFrom(s, p, i + 1)

IndexOf(s, p) == IndexFrom(s, p, 1)

\* s.includes(p)
Includes(s, p) == p = <<>> \/ IndexOf(s, p) # 0

\* s.substring(n)
Substring(s, n) == SubSeq(s, n + 1, Len(s))

\* s.split(sep) for a non-empty separator: left to right, non-overlapping.
RECURSIVE Split(_, _)
Split(s, sep) ==
    LET i == IndexOf(s, sep)
    IN  IF i = 0
        THEN <<s>>
        ELSE <<SubSeq(s, 1, i - 1)>> \o Split(SubSeq(s, i + Len(sep), Len(s)), sep)

\* parts.join(sep)
RECURSIVE Join(_, _)
Join(parts, sep) ==
    IF parts = <<>> THEN <<>>
    ELSE IF Len(parts) = 1 THEN parts[1]
    ELSE parts[1] \o sep \o Join(Tail(parts), sep)

\* s.trim()
RECURSIVE TrimStart(_)
TrimStart(s) ==
    IF s # <<>> /\ IsWhiteSpace(Head(s)) THEN TrimStart(Tail(s)) ELSE s

RECURSIVE TrimEnd(_)
TrimEnd(s) ==
    IF s # <<>> /\ IsWhiteSpace(s[Len(s)])
    THEN TrimEnd(SubSeq(s, 1, Len(s) - 1))
    ELSE s

Trim(s) == TrimEnd(TrimStart(s))

\* s.replace(p, r) with a string pattern: the first occurrence only.
ReplaceFirst(s, p, r) ==
    LET i == IndexOf(s, p)
    IN  IF i = 0 THEN s
        ELSE SubSeq(s, 1, i - 1) \o r \o SubSeq(s, i + Len(p), Len(s))

\* The truthiness of line.trim(): the line has a non-blank character.
NonBlank(line) == Trim(line) # <<>>

\* lines.filter(line => line.trim())
RECURSIVE FilterNonBlank(_)
FilterNonBlank(lines) ==
    IF lines = <<>> THEN <<>>
    ELSE (IF NonBlank(Head(lines)) THEN <<Head(lines)>> ELSE <<>>)
         \o FilterNonBlank(Tail(lines))

\* The filter that drops only the blocks that start with memory_content.
FilterNotStartingWith(memories, memory_content) ==
    SelectSeq(memories, LAMBDA memory : ~StartsWith(memory, memory_content))

\* memories.filter(memory => !memory.includes(memory_content))
RECURSIVE FilterNotIncluding(_, _)
FilterNotIncluding(memories, memory_content) ==
    IF memories = <<>> THEN <<>>
    ELSE (IF Includes(Head(memories), memory_content) THEN <<>> ELSE <<Head(memories)>>)
         \o FilterNotIncluding(Tail(memories), memory_content)

\* array.flat() of a sequence of sequences.
RECURSIVE Flat(_)
Flat(seqs) == IF seqs = <<>> THEN <<>> ELSE Head(seqs) \o Flat(Tail(seqs))

(***************************************************************************)
(* A JavaScript object with string keys, as retrieveCategory builds it: a  *)
(* sequence of [key, lines] with distinct keys, in insertion order (the    *)
(* order of Object.values and of JSON.stringify for keys that are not      *)
(* array indices).                                                         *)
(***************************************************************************)
EmptyObject == <<>>

HasKey(obj, key) == \E i \in 1..Len(obj) : obj[i].key = key

\* obj[key], for a key obj has.
Get(obj, key) == obj[CHOOSE i \in 1..Len(obj) : obj[i].key = key].lines

\* obj[key] = lines: a key obj has keeps its place.
Put(obj, key, lines) ==
    IF HasKey(obj, key)
    THEN [i \in 1..Len(obj) |->
            IF obj[i].key = key THEN [key |-> key, lines |-> lines] ELSE obj[i]]
    ELSE Append(obj, [key |-> key, lines |-> lines])

Keys(obj) == {obj[i].key : i \in 1..Len(obj)}

\* Object.values(obj)
ObjectValues(obj) == [i \in 1..Len(obj) |-> obj[i].lines]

\* obj[key] || []
LinesOf(obj, key) == IF HasKey(obj, key) THEN Get(obj, key) ELSE <<>>

(***************************************************************************)
(* The encoded category body                                               *)
(***************************************************************************)
HeaderMark == <<"#", SP>>

Untagged == <<"u", "n", "t", "a", "g", "g", "e", "d">>

Wildcard == <<"*">>

\* EncodeEntry with the tags joined by commas.
EncodeEntryCommaTags(data, tags) ==
    (IF Len(tags) > 0 THEN HeaderMark \o Join(tags, <<",">>) \o <<NL>> ELSE <<>>)
    \o data \o Delimiter

\* The text remember_memory appends: the header line when tags is not empty,
\* then the data and the blank line.
EncodeEntry(data, tags) ==
    (IF Len(tags) > 0 THEN HeaderMark \o Join(tags, <<SP>>) \o <<NL>> ELSE <<>>)
    \o data \o Delimiter

\* One turn of retrieveCategory's loop over the entries.
DecodeEntry(memories, entry) ==
    IF Trim(entry) = <<>> THEN memories
    ELSE LET lines == Split(entry, <<NL>>)
             firstLine == lines[1]
         IN  IF StartsWith(firstLine, HeaderMark)
             THEN LET tags == Split(Trim(Substring(firstLine, 2)), <<SP>>)
                      tagKey == Join(tags, <<SP>>)
                  IN  Put(memories, tagKey, FilterNonBlank(Tail(lines)))
             ELSE Put(memories, Untagged,
                      LinesOf(memories, Untagged) \o FilterNonBlank(lines))

RECURSIVE DecodeEntries(_, _)
DecodeEntries(memories, entries) ==
    IF entries = <<>> THEN memories
    ELSE DecodeEntries(DecodeEntry(memories, Head(entries)), Tail(entries))

\* The grouped view of a body: content.split('\n\n') decoded entry by entry.
DecodeBody(content) == DecodeEntries(EmptyObject, Split(content, Delimiter))

\* RemoveMatching that drops only the blocks equal to memory_content.
RemoveEqual(content, memory_content) ==
    Join(SelectSeq(Split(content, Delimiter), LAMBDA memory : memory # memory_content),
         Delimiter)

\* The body remove_specific_memory writes back.
RemoveMatching(content, memory_content) ==
    Join(FilterNotIncluding(Split(content, Delimiter), memory_content), Delimiter)

(***************************************************************************)
(* Paths and the file system of the file-backed server.  The environment   *)
(* is a project directory /h/p under the home directory /h.                *)
(***************************************************************************)
Cwd == << <<"h">>, <<"p">> >>

HomeDir == << <<"h">> >>

Sep == <<"/">>

Ext == <<".", "t", "x", "t">>

\* path.normalize of an absolute path given by its segments.
RECURSIVE Normalize(_, _)
Normalize(done, segments) ==
    IF segments = <<>> THEN done
    ELSE LET seg == Head(segments)
         IN  IF seg = <<>> \/ seg = <<".">> THEN Normalize(done, Tail(segments))
             ELSE IF seg = <<".", ".">>
             THEN Normalize(IF done = <<>> THEN done
                            ELSE SubSeq(done, 1, Len(done) - 1), Tail(segments))
             ELSE Normalize(Append(done, seg), Tail(segments))

\* path.join(dir, name) for an absolute, normalized dir.
PathJoin(dir, name) == Normalize(dir, Split(name, Sep))

appDirs ==
    [local  |-> PathJoin(PathJoin(Cwd, <<".", "g", "o", "o", "s", "e">>), <<"m", "e", "m", "o", "r", "y">>),
     global |-> PathJoin(PathJoin(PathJoin(HomeDir, <<".", "c", "o", "n", "f", "i", "g">>), <<"g", "o", "o", "s", "e">>), <<"m", "e", "m", "o", "r", "y">>)]

BaseDir(is_global) == IF is_global THEN appDirs.global ELSE appDirs.local

MemoryFilePath(category, is_global) == PathJoin(BaseDir(is_global), category \o Ext)

Parent(p) == SubSeq(p, 1, Len(p) - 1)

IsUnder(p, dir) == Len(p) > Len(dir) /\ SubSeq(p, 1, Len(dir)) = dir

\* The directories: fs.ensureDirSync makes the two memory directories and
\* their ancestors at startup; no handler makes or removes a directory.
Dirs ==
    {SubSeq(appDirs.local, 1, n) : n \in 0..Len(appDirs.local)}
    \cup {SubSeq(appDirs.global, 1, n) : n \in 0..Len(appDirs.global)}

\* fs.pathExists
PathExists(fs, p) == p \in DOMAIN fs \/ p \in Dirs

\* Whether a write to p succeeds: its directory exists (else ENOENT) and p is
\* no directory (else EISDIR).
Writable(p) == p # <<>> /\ Parent(p) \in Dirs /\ p \notin Dirs

\* AppendFile that writes the content over what the file holds.
AppendFileTruncating(fs, p, content) ==
    [q \in DOMAIN fs \cup {p} |-> IF q = p THEN content ELSE fs[q]]

\* fs.appendFile: creates the file when it is absent.
AppendFile(fs, p, content) ==
    [q \in DOMAIN fs \cup {p} |->
        IF q = p THEN (IF p \in DOMAIN fs THEN fs[p] ELSE <<>>) \o content
        ELSE fs[q]]

\* fs.writeFile
WriteFile(fs, p, content) ==
    [q \in DOMAIN fs \cup {p} |-> IF q = p THEN content ELSE fs[q]]

\* fs.remove
RemoveFile(fs, p) == [q \in DOMAIN fs \ {p} |-> fs[q]]

\* fs.emptyDir: deletes what the directory holds, not the directory.
EmptyDir(fs, dir) == [q \in {r \in DOMAIN fs : ~IsUnder(r, dir)} |-> fs[q]]

\* fs.readdir: the names directly in the directory.
Readdir(fs, dir) ==
    {p[Len(p)] : p \in {q \in DOMAIN fs \cup Dirs : q # <<>> /\ Parent(q) = dir}}

(***************************************************************************)
(* What a tool call returns: content[0].text and isError.  The text of a   *)
(* retrieve is JSON.stringify of the object, kept here as the object.      *)
(***************************************************************************)
Success(text) == [isError |-> FALSE, text |-> text, memories |-> EmptyObject]

Retrieved(memories) == [isError |-> FALSE, text |-> "memories", memories |-> memories]

Failure(text) == [isError |-> TRUE, text |-> text, memories |-> EmptyObject]

\* The answer to a call whose arguments fail the tool's schema: the handler
\* is not called.
Rejected == Failure("ValidationError")

\* z.string().min(1)
NonEmpty(s) == Len(s) >= 1

\* ValidRemember without the check of data.
ValidRememberCategoryOnly(category, data, tags) == NonEmpty(category)

\* The schemas of the four tools.
ValidRemember(category, data, tags) == NonEmpty(category) /\ NonEmpty(data)

ValidCategory(category) == NonEmpty(category)

ValidRemoveSpecific(category, memory_content) ==
    NonEmpty(category) /\ NonEmpty(memory_content)

(***************************************************************************)
(* The file-backed server (memory-server/index.ts).  Each handler gives    *)
(* the file system it leaves and the result it returns.                    *)
(***************************************************************************)
\* retrieveCategory(category, isGlobal)
retrieveCategory(fs, category, isGlobal) ==
    LET memoryFilePath == MemoryFilePath(category, isGlobal)
    IN  IF ~PathExists(fs, memoryFilePath) THEN EmptyObject
        ELSE DecodeBody(fs[memoryFilePath])

\* remember_memory on a backend without append: it writes the entry alone.
remember_memory_overwriting(fs, category, data, tags, is_global) ==
    LET memoryFilePath == MemoryFilePath(category, is_global)
    IN  IF Writable(memoryFilePath)
        THEN [files |-> [q \in DOMAIN fs \cup {memoryFilePath} |->
                            IF q = memoryFilePath THEN EncodeEntry(data, tags)
                            ELSE fs[q]],
              result |-> Success("stored")]
        ELSE [files |-> fs, result |-> Failure("ENOENT")]

\* The handler of remember_memory.
remember_memory(fs, category, data, tags, is_global) ==
    LET memoryFilePath == MemoryFilePath(category, is_global)
        content == EncodeEntry(data, tags)
    IN  IF Writable(memoryFilePath)
        THEN [files |-> AppendFile(fs, memoryFilePath, content),
              result |-> Success("stored")]
        ELSE [files |-> fs, result |-> Failure("ENOENT")]

\* The wildcard loop of retrieve_memories over the files of the directory.
RECURSIVE RetrieveFiles(_, _, _, _)
RetrieveFiles(fs, dirFiles, is_global, memories) ==
    IF dirFiles = {} THEN memories
    ELSE LET file == CHOOSE f \in dirFiles : TRUE
             categoryName == ReplaceFirst(file, Ext, <<>>)
             categoryMemories == retrieveCategory(fs, categoryName, is_global)
             next == IF EndsWith(file, Ext) /\ Len(ObjectValues(categoryMemories)) > 0
                     THEN Put(memories, categoryName,
                              Flat(ObjectValues(categoryMemories)))
                     ELSE memories
         IN  RetrieveFiles(fs, dirFiles \ {file}, is_global, next)

\* retrieve_memories that makes the file of a category that has none.
retrieve_memories_ensuring(fs, category, is_global) ==
    LET memoryFilePath == MemoryFilePath(category, is_global)
        ensured == IF category # Wildcard /\ Writable(memoryFilePath)
                   THEN AppendFile(fs, memoryFilePath, <<>>) ELSE fs
    IN  [files |-> ensured,
         result |-> Retrieved(retrieveCategory(ensured, category, is_global))]

\* The handler of retrieve_memories.
retrieve_memories(fs, category, is_global) ==
    LET baseDir == BaseDir(is_global)
    IN  IF category = Wildcard
        THEN [files |-> fs,
              result |-> Retrieved(
                  IF PathExists(fs, baseDir)
                  THEN RetrieveFiles(fs, Readdir(fs, baseDir), is_global, EmptyObject)
                  ELSE EmptyObject)]
        ELSE [files |-> fs,
              result |-> Retrieved(retrieveCategory(fs, category, is_global))]

\* The handler of remove_memory_category.
remove_memory_category(fs, category, is_global) ==
    LET baseDir == BaseDir(is_global)
        memoryFilePath == MemoryFilePath(category, is_global)
    IN  IF category = Wildcard
        THEN [files |-> IF PathExists(fs, baseDir) THEN EmptyDir(fs, baseDir) ELSE fs,
              result |-> Success("cleared all")]
        ELSE [files |-> IF PathExists(fs, memoryFilePath)
                        THEN RemoveFile(fs, memoryFilePath) ELSE fs,
              result |-> Success("cleared")]

\* remove_specific_memory that deletes the file when no text is left.
remove_specific_memory_unlinking(fs, category, memory_content, is_global) ==
    LET memoryFilePath == MemoryFilePath(category, is_global)
        newContent == IF PathExists(fs, memoryFilePath)
                      THEN RemoveMatching(fs[memoryFilePath], memory_content) ELSE <<>>
    IN  [files |-> IF ~PathExists(fs, memoryFilePath) THEN fs
                   ELSE IF newContent = <<>>
                   THEN [q \in DOMAIN fs \ {memoryFilePath} |-> fs[q]]
                   ELSE [q \in DOMAIN fs |-> IF q = memoryFilePath THEN newContent
                                             ELSE fs[q]],
         result |-> Success("removed")]

\* The handler of remove_specific_memory.
remove_specific_memory(fs, category, memory_content, is_global) ==
    LET memoryFilePath == MemoryFilePath(category, is_global)
    IN  IF PathExists(fs, memoryFilePath)
        THEN [files |-> WriteFile(fs, memoryFilePath,
                                  RemoveMatching(fs[memoryFilePath], memory_content)),
              result |-> Success("removed")]
        ELSE [files |-> fs, result |-> Success("removed")]

(***************************************************************************)
(* The MemoryManager over localStorage.  Each method gives the storage it  *)
(* leaves and what it returns.                                             *)
(***************************************************************************)
localStoragePrefix == <<"g", "o", "o", "s", "e", "_", "l", "o", "c", "a", "l", "_", "m", "e", "m", "o", "r", "y", "_">>

globalStoragePrefix == <<"g", "o", "o", "s", "e", "_", "g", "l", "o", "b", "a", "l", "_", "m", "e", "m", "o", "r", "y", "_">>

StoragePrefix(isGlobal) == IF isGlobal THEN globalStoragePrefix ELSE localStoragePrefix

getStorageKey(category, isGlobal) == StoragePrefix(isGlobal) \o category

\* localStorage.getItem(key) || ''
GetItemOrEmpty(ls, key) == IF key \in DOMAIN ls THEN ls[key] ELSE <<>>

\* localStorage.setItem
SetItem(ls, key, value) ==
    [k \in DOMAIN ls \cup {key} |-> IF k = key THEN value ELSE ls[k]]

\* localStorage.removeItem
RemoveItem(ls, key) == [k \in DOMAIN ls \ {key} |-> ls[k]]

\* MemoryManager.retrieve: an absent key and an empty value both give {}.
retrieve(ls, category, isGlobal) ==
    LET content == GetItemOrEmpty(ls, getStorageKey(category, isGlobal))
    IN  IF content = <<>> THEN EmptyObject ELSE DecodeBody(content)

\* The loop of MemoryManager.retrieveAll over the keys of localStorage.
RECURSIVE RetrieveKeys(_, _, _, _)
RetrieveKeys(ls, keys, isGlobal, memories) ==
    IF keys = {} THEN memories
    ELSE LET key == CHOOSE k \in keys : TRUE
             prefix == StoragePrefix(isGlobal)
             category == Substring(key, Len(prefix))
             categoryMemories == retrieve(ls, category, isGlobal)
             next == IF StartsWith(key, prefix) /\ Len(ObjectValues(categoryMemories)) > 0
                     THEN Put(memories, category, Flat(ObjectValues(categoryMemories)))
                     ELSE memories
         IN  RetrieveKeys(ls, keys \ {key}, isGlobal, next)

\* MemoryManager.retrieveAll
retrieveAll(ls, isGlobal) == RetrieveKeys(ls, DOMAIN ls, isGlobal, EmptyObject)

\* MemoryManager.remember
remember(ls, category, data, tags, isGlobal) ==
    LET storageKey == getStorageKey(category, isGlobal)
        existingData == GetItemOrEmpty(ls, storageKey)
        content == EncodeEntry(data, tags)
    IN  SetItem(ls, storageKey, existingData \o content)

\* MemoryManager.removeSpecificMemory
removeSpecificMemory(ls, category, memoryContent, isGlobal) ==
    LET storageKey == getStorageKey(category, isGlobal)
        content == GetItemOrEmpty(ls, storageKey)
    IN  IF content = <<>> THEN ls
        ELSE SetItem(ls, storageKey, RemoveMatching(content, memoryContent))

\* MemoryManager.clearMemory
clearMemory(ls, category, isGlobal) == RemoveItem(ls, getStorageKey(category, isGlobal))

\* MemoryManager.clearAllMemories
clearAllMemories(ls, isGlobal) ==
    LET keysToRemove == {key \in DOMAIN ls : StartsWith(key, StoragePrefix(isGlobal))}
    IN  [k \in DOMAIN ls \ keysToRemove |-> ls[k]]

\* The handlers registerWithServer gives the four tools.
MmRememberMemory(ls, category, data, tags, is_global) ==
    [storage |-> remember(ls, category, data, tags, is_global),
     result |-> Success("stored")]

MmRetrieveMemories(ls, category, is_global) ==
    [storage |-> ls,
     result |-> Retrieved(IF category = Wildcard THEN retrieveAll(ls, is_global)
                          ELSE retrieve(ls, category, is_global))]

MmRemoveMemoryCategory(ls, category, is_global) ==
    IF category = Wildcard
    THEN [storage |-> clearAllMemories(ls, is_global), result |-> Success("cleared all")]
    ELSE [storage |-> clearMemory(ls, category, is_global), result |-> Success("cleared")]

MmRemoveSpecificMemory(ls, category, memory_content, is_global) ==
    [storage |-> removeSpecificMemory(ls, category, memory_content, is_global),
     result |-> Success("removed")]

(***************************************************************************)
(* The tool calls of the model                                             *)
(***************************************************************************)
MaxOps == 2

\* A category that climbs out of the memory directory: from the local
\* directory /h/p/.goose/memory it names /h/.config/goose/memory/x.txt.
Traversal == <<".", ".", "/", ".", ".", "/", ".", ".", "/", ".", "c", "o", "n", "f", "i", "g", "/", "g", "o", "o", "s", "e", "/", "m", "e", "m", "o", "r", "y", "/", "x">>

\* A category with the file extension inside its name: a.txtb
Dotted == <<"a", ".", "t", "x", "t", "b">>

PlainCategories == {<<"x">>, <<"y">>}

Categories == PlainCategories \cup {Wildcard, Traversal, <<>>}

Memory(data, tags) == [data |-> data, tags |-> tags]

\* Memories as a client words them.
PlainMemories ==
    {Memory(<<"h", "i">>, <<>>), Memory(<<"h", "i">>, <<<<"t">>>>), Memory(<<"y", "o">>, <<<<"t">>>>),
     Memory(<<"y", "o">>, <<<<"t">>, <<"u">>>>)}

\* Memories the schema accepts whose text meets the encoding: a blank line
\* inside the data, data that reads as a header line, data ending in a line
\* break, an empty tag.
OddMemories ==
    {Memory(<<"a", NL, NL, "b">>, <<<<"t">>>>), Memory(<<"#", SP, "t">>, <<>>), Memory(<<"b", NL>>, <<>>),
     Memory(<<"h", "i">>, <<<<"t">>, <<>>>>)}

MemoryContents == {<<"h", "i">>, <<"t">>}

RememberArgs ==
    [category : PlainCategories, memory : PlainMemories, is_global : BOOLEAN]
    \cup [category : {<<"x">>}, memory : OddMemories, is_global : {FALSE}]
    \cup [category : {Wildcard, Traversal, Dotted}, memory : {Memory(<<"h", "i">>, <<>>)},
          is_global : {FALSE}]
    \cup [category : {<<>>}, memory : {Memory(<<"h", "i">>, <<>>)}, is_global : {FALSE}]
    \cup [category : {<<"x">>}, memory : {Memory(<<>>, <<<<"t">>>>)}, is_global : {FALSE}]

CategoryArgs == [category : Categories, is_global : BOOLEAN]

RemoveSpecificArgs ==
    [category : PlainCategories, memory_content : MemoryContents, is_global : BOOLEAN]
    \cup [category : {Wildcard, Traversal, <<>>}, memory_content : {<<"h", "i">>},
          is_global : {FALSE}]
    \cup [category : {<<"x">>}, memory_content : {<<>>}, is_global : {FALSE}]

\* What earlier sessions left in the store: the remember_memory calls they
\* made, oldest first.  The store outlives the process.
Stored(category, data, tags, is_global) ==
    [category |-> category, memory |-> Memory(data, tags), is_global |-> is_global]

EarlierSessions ==
    {<<>>,
     <<Stored(<<"x">>, <<"h", "i">>, <<<<"t">>>>, FALSE), Stored(<<"x">>, <<"y", "o">>, <<>>, FALSE),
       Stored(<<"y">>, <<"h", "i">>, <<>>, FALSE), Stored(<<"x">>, <<"y", "o">>, <<<<"t">>>>, TRUE)>>,
     <<Stored(<<"x">>, <<"h", "i">>, <<<<"t">>>>, FALSE), Stored(<<"x">>, <<"y", "o">>, <<<<"t">>>>, FALSE),
       Stored(<<"y">>, <<"y", "o">>, <<<<"t">>, <<"u">>>>, TRUE)>>}

RECURSIVE FilesAfter(_, _)
FilesAfter(fs, calls) ==
    IF calls = <<>> THEN fs
    ELSE LET c == Head(calls)
         IN  FilesAfter(remember_memory(fs, c.category, c.memory.data, c.memory.tags,
                                        c.is_global).files, Tail(calls))

RECURSIVE StorageAfter(_, _)
StorageAfter(ls, calls) ==
    IF calls = <<>> THEN ls
    ELSE LET c == Head(calls)
         IN  StorageAfter(remember(ls, c.category, c.memory.data, c.memory.tags,
                                   c.is_global), Tail(calls))

Request(tool, category, memory, memory_content, is_global) ==
    [tool |-> tool, category |-> category, data |-> memory.data,
     tags |-> memory.tags, memory_content |-> memory_content,
     is_global |-> is_global]

NoMemory == Memory(<<>>, <<>>)

NoRequest == Request("none", <<>>, NoMemory, <<>>, FALSE)

NoReply == [fs |-> Success("none"), mm |-> Success("none")]

Init ==
    \E calls \in EarlierSessions :
        /\ files = FilesAfter(<<>>, calls)
        /\ localStorage = StorageAfter(<<>>, calls)
        /\ stored = {<<calls[i].category, calls[i].is_global>> : i \in 1..Len(calls)}
        /\ last = NoRequest
        /\ reply = NoReply
        /\ ops = 0
        /\ inflight = <<>>

\* A remember_memory call, served by both implementations.
RememberMemory(category, data, tags, is_global) ==
    /\ ops < MaxOps
    /\ ops' = ops + 1
    /\ UNCHANGED inflight
    /\ last' = Request("remember_memory", category, Memory(data, tags), <<>>, is_global)
    /\ IF ValidRemember(category, data, tags)
       THEN LET f == remember_memory(files, category, data, tags, is_global)
                m == MmRememberMemory(localStorage, category, data, tags, is_global)
            IN  /\ files' = f.files
                /\ localStorage' = m.storage
                /\ reply' = [fs |-> f.result, mm |-> m.result]
                /\ stored' = IF f.result.isError THEN stored
                             ELSE stored \cup {<<category, is_global>>}
       ELSE /\ reply' = [fs |-> Rejected, mm |-> Rejected]
            /\ UNCHANGED <<files, localStorage, stored>>

\* A retrieve_memories call.
RetrieveMemories(category, is_global) ==
    /\ ops < MaxOps
    /\ ops' = ops + 1
    /\ UNCHANGED inflight
    /\ last' = Request("retrieve_memories", category, NoMemory, <<>>, is_global)
    /\ IF ValidCategory(category)
       THEN LET f == retrieve_memories(files, category, is_global)
                m == MmRetrieveMemories(localStorage, category, is_global)
            IN  /\ files' = f.files
                /\ localStorage' = m.storage
                /\ reply' = [fs |-> f.result, mm |-> m.result]
       ELSE /\ reply' = [fs |-> Rejected, mm |-> Rejected]
            /\ UNCHANGED <<files, localStorage>>
    /\ UNCHANGED stored

\* A remove_memory_category call.
RemoveMemoryCategory(category, is_global) ==
    /\ ops < MaxOps
    /\ ops' = ops + 1
    /\ UNCHANGED inflight
    /\ last' = Request("remove_memory_category", category, NoMemory, <<>>, is_global)
    /\ IF ValidCategory(category)
       THEN LET f == remove_memory_category(files, category, is_global)
                m == MmRemoveMemoryCategory(localStorage, category, is_global)
            IN  /\ files' = f.files
                /\ localStorage' = m.storage
                /\ reply' = [fs |-> f.result, mm |-> m.result]
                /\ stored' = {s \in stored :
                                 \/ s[2] # is_global
                                 \/ (category # Wildcard /\ s[1] # category)}
       ELSE /\ reply' = [fs |-> Rejected, mm |-> Rejected]
            /\ UNCHANGED <<files, localStorage, stored>>

\* A remove_specific_memory call.
RemoveSpecificMemory(category, memory_content, is_global) ==
    /\ ops < MaxOps
    /\ ops' = ops + 1
    /\ UNCHANGED inflight
    /\ last' = Request("remove_specific_memory", category, NoMemory, memory_content,
                       is_global)
    /\ IF ValidRemoveSpecific(category, memory_content)
       THEN LET f == remove_specific_memory(files, category, memory_content, is_global)
                m == MmRemoveSpecificMemory(localStorage, category, memory_content,
                                            is_global)
            IN  /\ files' = f.files
                /\ localStorage' = m.storage
                /\ reply' = [fs |-> f.result, mm |-> m.result]
       ELSE /\ reply' = [fs |-> Rejected, mm |-> Rejected]
            /\ UNCHANGED <<files, localStorage>>
    /\ UNCHANGED stored

Next ==
    \/ \E a \in RememberArgs :
          RememberMemory(a.category, a.memory.data, a.memory.tags, a.is_global)
    \/ \E a \in CategoryArgs : RetrieveMemories(a.category, a.is_global)
    \/ \E a \in CategoryArgs : RemoveMemoryCategory(a.category, a.is_global)
    \/ \E a \in RemoveSpecificArgs :
          RemoveSpecificMemory(a.category, a.memory_content, a.is_global)

Spec == Init /\ [][Next]_vars

(***************************************************************************)
(* What a client observes, used to state the claims                        *)
(***************************************************************************)
Scopes == BOOLEAN

\* The categories the schemas accept.
ValidCategories == {c \in Categories : ValidCategory(c)}

\* retrieve(category, scope) as each implementation answers it.
FsView(fs, category, is_global) ==
    retrieve_memories(fs, category, is_global).result.memories

MmView(ls, category, is_global) ==
    MmRetrieveMemories(ls, category, is_global).result.memories

\* The resource of (scope, category): <<body>> when it exists, <<>> when not.
FsResource(fs, category, is_global) ==
    LET p == MemoryFilePath(category, is_global)
    IN  IF p \in DOMAIN fs THEN <<fs[p]>> ELSE <<>>

MmResource(ls, category, is_global) ==
    LET k == getStorageKey(category, is_global)
    IN  IF k \in DOMAIN ls THEN <<ls[k]>> ELSE <<>>

\* The body of a resource, empty when the resource is absent.
BodyOf(resource) == IF resource = <<>> THEN <<>> ELSE resource[1]

Elements(seq) == {seq[i] : i \in 1..Len(seq)}

\* The lines of a text that are not blank.
NonBlankLines(text) == SelectSeq(Split(text, <<NL>>), LAMBDA l : \E i \in 1..Len(l) : l[i] \notin {SP, NL})

\* The group key a store with these tags is filed under.
KeyOf(tags) == IF tags = <<>> THEN Untagged ELSE Join(tags, <<SP>>)

\* The lines of data are among the lines the view has under the key of tags.
Filed(view, data, tags) ==
    Elements(NonBlankLines(data)) \subseteq Elements(LinesOf(view, KeyOf(tags)))

Served(tool) == last'.tool = tool /\ ~reply'.fs.isError /\ ~reply'.mm.isError

(***************************************************************************)
(* C1.  After a successful store(category, data, tags, scope),             *)
(* retrieve(category, scope) has the lines of data under the key made of   *)
(* the tags joined by single spaces, or under "untagged" when there are no *)
(* tags: stated for every category, data and tag list the schema accepts.  *)
(***************************************************************************)
C1_StoreThenRetrieve ==
    [][Served("remember_memory") =>
          /\ Filed(FsView(files', last'.category, last'.is_global),
                   last'.data, last'.tags)
          /\ Filed(MmView(localStorage', last'.category, last'.is_global),
                   last'.data, last'.tags)]_vars

\* The stores the encoding can carry: a concrete category; no blank line in
\* the header line followed by the data; untagged data that does not read as
\* a header line; tags whose joined text has no line break and no white
\* space at either end.
Encodable(category, data, tags) ==
    /\ category # Wildcard
    /\ ~Includes((IF tags = <<>> THEN <<>> ELSE <<"#">>) \o data, Delimiter)
    /\ tags = <<>> => ~StartsWith(data, HeaderMark)
    /\ LET joined == Join(tags, <<SP>>)
       IN  /\ NL \notin Elements(joined)
           /\ joined # <<>> => joined[1] # SP /\ joined[Len(joined)] # SP

\* The body ends where an entry ends: it is empty or its last block is.
EndsOnBoundary(body) ==
    LET blocks == Split(body, Delimiter) IN blocks[Len(blocks)] = <<>>

\* C1 as amended: for a store the encoding can carry, onto a resource that is
\* absent or whose body ends where an entry ends, retrieve(category, scope)
\* has the non-blank lines of data under the key of the tags.
C1_EncodableStoreThenRetrieve ==
    [][(/\ Served("remember_memory")
        /\ Encodable(last'.category, last'.data, last'.tags))
       =>
       \A fsBefore \in {BodyOf(FsResource(files, last'.category, last'.is_global))},
          mmBefore \in {BodyOf(MmResource(localStorage, last'.category, last'.is_global))},
          fsAfter \in {FsView(files', last'.category, last'.is_global)},
          mmAfter \in {MmView(localStorage', last'.category, last'.is_global)} :
          /\ EndsOnBoundary(fsBefore) => Filed(fsAfter, last'.data, last'.tags)
          /\ EndsOnBoundary(mmBefore) => Filed(mmAfter, last'.data, last'.tags)]_vars

\* A store with two tags onto a category that held entries is retrieved under
\* the key "t u".
C1_Witness ==
    /\ last.tool = "remember_memory"
    /\ last.tags = <<<<"t">>, <<"u">>>>
    /\ last.data = <<"y", "o">>
    /\ ~reply.fs.isError
    /\ Len(BodyOf(FsResource(files, last.category, last.is_global)))
          > Len(EncodeEntry(last.data, last.tags))
    /\ LinesOf(FsView(files, last.category, last.is_global), <<"t", SP, "u">>) = <<<<"y", "o">>>>
    /\ LinesOf(MmView(localStorage, last.category, last.is_global), <<"t", SP, "u">>) = <<<<"y", "o">>>>

(***************************************************************************)
(* C2.  Scope isolation: a store, removeCategory or removeEntry issued     *)
(* with one value of is_global never changes what retrieve answers, for    *)
(* any category or "*", with the other value.                              *)
(***************************************************************************)
C2_ScopeIsolation ==
    [][last'.tool \in {"remember_memory", "remove_memory_category",
                       "remove_specific_memory"}
       => \A c \in ValidCategories :
             /\ FsView(files', c, ~last'.is_global) = FsView(files, c, ~last'.is_global)
             /\ MmView(localStorage', c, ~last'.is_global)
                   = MmView(localStorage, c, ~last'.is_global)]_vars

(***************************************************************************)
(* C3.  For a concrete category each group key maps to the lines of all    *)
(* the entries stored under that key, in store order: the lines retrieve   *)
(* returned under a key are still returned, first, after a later store     *)
(* with the same tags.                                                     *)
(***************************************************************************)
IsPrefix(s, t) == Len(s) <= Len(t) /\ SubSeq(t, 1, Len(s)) = s

C3_GroupsKeepEarlierEntries ==
    [][(/\ Served("remember_memory")
        /\ Encodable(last'.category, last'.data, last'.tags))
       =>
       LET c == last'.category
           g == last'.is_global
           key == KeyOf(last'.tags)
       IN  /\ IsPrefix(LinesOf(FsView(files, c, g), key),
                       LinesOf(FsView(files', c, g), key))
           /\ IsPrefix(LinesOf(MmView(localStorage, c, g), key),
                       LinesOf(MmView(localStorage', c, g), key))]_vars

(***************************************************************************)
(* C4.  removeEntry on an existing category removes exactly the blocks of  *)
(* the body, as separated by blank lines, that contain memory_content as a *)
(* substring (in a header line too) and writes the others back unchanged   *)
(* and in order; a line retrieve returned that belongs to no removed block *)
(* is still returned under its key.                                        *)
(***************************************************************************)
Contains(text, part) ==
    \E i \in 1..(Len(text) + 1 - Len(part)) : SubSeq(text, i, i + Len(part) - 1) = part

\* The blocks of the body without those that contain the part.
BlocksWithout(body, part) ==
    SelectSeq(Split(body, Delimiter), LAMBDA b : ~Contains(b, part))

\* The lines of the blocks of the body that contain the part.
RemovedLines(body, part) ==
    UNION {Elements(Split(b, <<NL>>)) :
              b \in {x \in Elements(Split(body, Delimiter)) : Contains(x, part)}}

\* s is t with some elements left out.
RECURSIVE IsSubsequence(_, _)
IsSubsequence(s, t) ==
    IF s = <<>> THEN TRUE
    ELSE IF t = <<>> THEN FALSE
    ELSE IF Head(s) = Head(t) THEN IsSubsequence(Tail(s), Tail(t))
    ELSE IsSubsequence(s, Tail(t))

\* The lines the view had that no removed block holds are in the later view,
\* under the same key and in the same order.
KeepsOtherLines(before, after, removed) ==
    \A k \in Keys(before) :
        IsSubsequence(SelectSeq(LinesOf(before, k), LAMBDA l : l \notin removed),
                      LinesOf(after, k))

C4_RemovesExactlyMatchingBlocks ==
    [][Served("remove_specific_memory") =>
       LET c == last'.category
           g == last'.is_global
           part == last'.memory_content
           fsBefore == FsResource(files, c, g)
           mmBefore == MmResource(localStorage, c, g)
       IN  /\ fsBefore # <<>> =>
                /\ FsResource(files', c, g) # <<>>
                /\ Split(BodyOf(FsResource(files', c, g)), Delimiter)
                      = BlocksWithout(fsBefore[1], part)
                /\ KeepsOtherLines(FsView(files, c, g), FsView(files', c, g),
                                   RemovedLines(fsBefore[1], part))
           /\ mmBefore # <<>> =>
                /\ MmResource(localStorage', c, g) # <<>>
                /\ Split(BodyOf(MmResource(localStorage', c, g)), Delimiter)
                      = BlocksWithout(mmBefore[1], part)
                /\ KeepsOtherLines(MmView(localStorage, c, g),
                                   MmView(localStorage', c, g),
                                   RemovedLines(mmBefore[1], part))]_vars

\* Of the entries "# t / hi" and "yo" an earlier session left in local x, the
\* first call, removeEntry(x, "t"), removed the one whose header holds "t".
C4_Witness ==
    /\ ops = 1
    /\ last.tool = "remove_specific_memory"
    /\ last.memory_content = <<"t">>
    /\ FsResource(files, <<"x">>, FALSE) = <<<<"y", "o", NL, NL>>>>
    /\ MmResource(localStorage, <<"x">>, FALSE) = <<<<"y", "o", NL, NL>>>>
    /\ FsView(files, <<"x">>, FALSE) = <<[key |-> Untagged, lines |-> <<<<"y", "o">>>>]>>

(***************************************************************************)
(* C5.  After removeCategory(x, scope) of a concrete category x,           *)
(* retrieve(x, scope) is the empty mapping, and the body and the retrieve  *)
(* result of every other category of that scope and of every category of   *)
(* the other scope are unchanged.                                          *)
(***************************************************************************)
ConcreteCategories == ValidCategories \ {Wildcard}

C5_RemoveCategoryFrame ==
    [][(Served("remove_memory_category") /\ last'.category # Wildcard) =>
       LET x == last'.category
           scope == last'.is_global
       IN  /\ FsView(files', x, scope) = EmptyObject
           /\ MmView(localStorage', x, scope) = EmptyObject
           /\ \A y \in ConcreteCategories, g \in Scopes :
                 <<y, g>> # <<x, scope>> =>
                    /\ FsResource(files', y, g) = FsResource(files, y, g)
                    /\ FsView(files', y, g) = FsView(files, y, g)
                    /\ MmResource(localStorage', y, g) = MmResource(localStorage, y, g)
                    /\ MmView(localStorage', y, g) = MmView(localStorage, y, g)]_vars

(***************************************************************************)
(* C6.  After removeCategory("*", scope) no category resource remains in   *)
(* the scope: retrieve("*", scope) and retrieve(c, scope) for every        *)
(* category c are the empty mapping; the resources of the other scope are  *)
(* unchanged.                                                              *)
(***************************************************************************)
C6_RemoveAllEmptiesScope ==
    [][(Served("remove_memory_category") /\ last'.category = Wildcard) =>
       LET scope == last'.is_global
       IN  \A c \in ValidCategories :
              /\ FsView(files', c, scope) = EmptyObject
              /\ MmView(localStorage', c, scope) = EmptyObject
              /\ FsResource(files', c, ~scope) = FsResource(files, c, ~scope)
              /\ MmResource(localStorage', c, ~scope)
                    = MmResource(localStorage, c, ~scope)]_vars

(***************************************************************************)
(* C7.  Wildcard aggregation: after a store into a category of a scope,    *)
(* retrieve("*", scope) has the category as a key, mapped to the lines of  *)
(* the category, and retrieve("*") of the other scope gains no key and no  *)
(* line from it.                                                           *)
(***************************************************************************)
C7_WildcardAggregation ==
    [][(Served("remember_memory") /\ last'.category # Wildcard) =>
       LET c == last'.category
           scope == last'.is_global
           fsAll == FsView(files', Wildcard, scope)
           mmAll == MmView(localStorage', Wildcard, scope)
       IN  /\ HasKey(fsAll, c)
           /\ Get(fsAll, c) = Flat(ObjectValues(FsView(files', c, scope)))
           /\ HasKey(mmAll, c)
           /\ Get(mmAll, c) = Flat(ObjectValues(MmView(localStorage', c, scope)))
           /\ FsView(files', Wildcard, ~scope) = FsView(files, Wildcard, ~scope)
           /\ MmView(localStorage', Wildcard, ~scope)
                 = MmView(localStorage, Wildcard, ~scope)]_vars

(***************************************************************************)
(* C8.  retrieve, of a category or of "*", is read-only: it changes no     *)
(* resource of either scope and creates none, and a second retrieve with   *)
(* the same arguments right after the first returns the same result.       *)
(***************************************************************************)
C8_RetrieveReadOnly ==
    [][last'.tool = "retrieve_memories" =>
          /\ files' = files
          /\ localStorage' = localStorage
          /\ (last.tool = "retrieve_memories" /\ last' = last) => reply' = reply]_vars

\* A second call has retrieved the two groups of a category that earlier
\* sessions stored.
C8_Witness ==
    /\ ops = 2
    /\ last.tool = "retrieve_memories"
    /\ ~reply.fs.isError
    /\ Len(reply.fs.memories) = 2
    /\ reply.mm.memories = reply.fs.memories
    /\ files # <<>>

(***************************************************************************)
(* C9.  On a category that was never stored, or was deleted, retrieve      *)
(* returns the empty mapping, and removeCategory and removeEntry succeed   *)
(* and leave the store unchanged; none returns an error or creates the     *)
(* resource.                                                               *)
(***************************************************************************)
C9_MissingCategoryIsNoOp ==
    [][(/\ last'.tool \in {"retrieve_memories", "remove_memory_category",
                           "remove_specific_memory"}
        /\ last'.category \in ConcreteCategories
        /\ last'.tool = "remove_specific_memory" => last'.memory_content # <<>>
        /\ <<last'.category, last'.is_global>> \notin stored)
       =>
       /\ ~reply'.fs.isError /\ ~reply'.mm.isError
       /\ last'.tool = "retrieve_memories" =>
             reply'.fs.memories = EmptyObject /\ reply'.mm.memories = EmptyObject
       /\ files' = files
       /\ localStorage' = localStorage]_vars

(***************************************************************************)
(* C10.  A call with an empty category, a remember with empty data and a   *)
(* remove_entry with empty memory_content are rejected before the handler  *)
(* runs: no resource of either scope is created, changed or deleted.       *)
(***************************************************************************)
C10_InvalidInputRejected ==
    [][(/\ last'.tool # "none"
        /\ \/ last'.category = <<>>
           \/ last'.tool = "remember_memory" /\ last'.data = <<>>
           \/ last'.tool = "remove_specific_memory" /\ last'.memory_content = <<>>)
       =>
       /\ reply'.fs = Rejected
       /\ reply'.mm = Rejected
       /\ files' = files
       /\ localStorage' = localStorage]_vars

\* A remember with empty data was rejected and the store holds what it held.
C10_Witness ==
    /\ last.tool = "remember_memory"
    /\ last.category = <<"x">>
    /\ last.data = <<>>
    /\ reply.fs = Rejected
    /\ reply.mm = Rejected
    /\ FsResource(files, <<"x">>, FALSE) # <<>>

(***************************************************************************)
(* Calls during which the backing storage fails: the first call into       *)
(* fs-extra, or into localStorage, that can throw does throw.              *)
(***************************************************************************)
StorageError == "EIO"

Tools ==
    {"remember_memory", "retrieve_memories", "remove_memory_category",
     "remove_specific_memory"}

\* The catch block of a file-backed handler: a result with isError: true that
\* carries the message.
Caught(error) == Failure(error)

\* A handler that ends by throwing: no result is returned.
Thrown(error) ==
    [isError |-> TRUE, text |-> error, memories |-> EmptyObject, thrown |-> TRUE]

\* Whether the file-backed handler goes past fs.pathExists, to a call that
\* reads or writes.
ReachesStorage(fs, tool, category, is_global) ==
    \/ tool = "remember_memory"
    \/ tool \in {"retrieve_memories", "remove_memory_category"} /\ category = Wildcard
    \/ PathExists(fs, MemoryFilePath(category, is_global))

\* What the file-backed handler of the tool returns when that call throws.
FsOnStorageError(tool) == Caught(StorageError)

\* What the MemoryManager's handler of the tool does when localStorage
\* throws: retrieve and retrieveAll catch the error and return {}, which the
\* handler returns as the result; the other methods throw a MemoryError and
\* the handler throws an Error in turn.
MmOnStorageError(tool) ==
    IF tool = "retrieve_memories" THEN Retrieved(EmptyObject)
    ELSE Thrown(StorageError)

FailingRequest(tool, category, is_global) ==
    Request(tool, category,
            IF tool = "remember_memory" THEN Memory(<<"h", "i">>, <<>>) ELSE NoMemory,
            IF tool = "remove_specific_memory" THEN <<"h", "i">> ELSE <<>>,
            is_global)
    @@ [storage |-> "fails"]

FailingArgs == [tool : Tools, category : {<<"x">>, Wildcard}, is_global : {FALSE}]

\* A call of a tool during which the storage fails.  A failed call writes
\* nothing.
StorageFails(tool, category, is_global) ==
    /\ ops < MaxOps
    /\ ReachesStorage(files, tool, category, is_global)
    /\ ops' = ops + 1
    /\ UNCHANGED inflight
    /\ last' = FailingRequest(tool, category, is_global)
    /\ reply' = [fs |-> FsOnStorageError(tool), mm |-> MmOnStorageError(tool)]
    /\ UNCHANGED <<files, localStorage, stored>>

NextFaulty ==
    \/ Next
    \/ \E a \in FailingArgs : StorageFails(a.tool, a.category, a.is_global)

SpecFaulty == Init /\ [][NextFaulty]_vars

StorageFailed == "storage" \in DOMAIN last'

(***************************************************************************)
(* C11.  When the backing storage fails during one of the four operations, *)
(* the caller gets a failure result that carries the error message and has *)
(* the error flag set: not a success, not an empty result, not an          *)
(* exception.                                                              *)
(***************************************************************************)
C11_StorageFailureReported ==
    [][StorageFailed =>
          /\ reply'.fs = Failure(StorageError)
          /\ reply'.mm = Failure(StorageError)]_vars

(***************************************************************************)
(* C12.  The mapping from (scope, category) to the backing resource, the   *)
(* file path or the storage key, is one-to-one: two different pairs the    *)
(* schema accepts never resolve to the same resource, so an operation on   *)
(* one pair never writes the resource of another pair.                     *)
(***************************************************************************)
C12_OneResourcePerCategory ==
    [][(last'.tool \in Tools /\ last'.category \in ConcreteCategories) =>
       LET x == last'.category
           scope == last'.is_global
       IN  \A c \in ConcreteCategories, g \in Scopes :
              <<c, g>> # <<x, scope>> =>
                 /\ MemoryFilePath(c, g) # MemoryFilePath(x, scope)
                 /\ getStorageKey(c, g) # getStorageKey(x, scope)
                 /\ FsResource(files', c, g) = FsResource(files, c, g)
                 /\ MmResource(localStorage', c, g) = MmResource(localStorage, c, g)]_vars

(***************************************************************************)
(* C13.  remember_memory is idempotent: a second call right after a first  *)
(* one with the same category, data, tags and is_global leaves the         *)
(* resource of the category, and what retrieve returns for it, as the      *)
(* first call left them.                                                   *)
(***************************************************************************)
C13_RememberIdempotent ==
    [][(/\ Served("remember_memory")
        /\ last' = last
        /\ ~reply.fs.isError /\ ~reply.mm.isError)
       =>
       LET c == last'.category
           g == last'.is_global
       IN  /\ FsResource(files', c, g) = FsResource(files, c, g)
           /\ MmResource(localStorage', c, g) = MmResource(localStorage, c, g)
           /\ FsView(files', c, g) = FsView(files, c, g)
           /\ MmView(localStorage', c, g) = MmView(localStorage, c, g)]_vars

(***************************************************************************)
(* C14.  store is a pure append: the new body of the resource is the old   *)
(* body, empty when the resource was absent, followed by the encoded       *)
(* entry: the header line "# " and the tags joined by spaces when there    *)
(* are tags, then the data, then the blank-line delimiter.  Every other    *)
(* file and every other key is unchanged.                                  *)
(***************************************************************************)
\* The entry as the claim words it.
HeaderLine(tags) == IF tags = <<>> THEN <<>> ELSE <<"#", SP>> \o Join(tags, <<SP>>) \o <<NL>>

EntryText(data, tags) == HeaderLine(tags) \o data \o <<NL, NL>>

\* The function g is f with the value at k replaced by v, k added if absent.
SameBut(f, g, k, v) ==
    /\ DOMAIN g = DOMAIN f \cup {k}
    /\ g[k] = v
    /\ \A j \in DOMAIN f \ {k} : g[j] = f[j]

C14_StoreIsPureAppend ==
    [][Served("remember_memory") =>
       LET c == last'.category
           g == last'.is_global
           entry == EntryText(last'.data, last'.tags)
       IN  /\ SameBut(files, files', MemoryFilePath(c, g),
                      BodyOf(FsResource(files, c, g)) \o entry)
           /\ SameBut(localStorage, localStorage', getStorageKey(c, g),
                      BodyOf(MmResource(localStorage, c, g)) \o entry)]_vars

\* A store with two tags was appended to what earlier sessions left in local
\* x, and local y is as they left it.
C14_Witness ==
    /\ last.tool = "remember_memory"
    /\ FsResource(files, <<"x">>, FALSE)
          = <<<<"#", SP, "t", NL, "h", "i", NL, NL, "y", "o", NL, NL, "#", SP, "t", SP, "u", NL, "y", "o", NL, NL>>>>
    /\ MmResource(localStorage, <<"x">>, FALSE) = FsResource(files, <<"x">>, FALSE)
    /\ FsResource(files, <<"y">>, FALSE) = <<<<"h", "i", NL, NL>>>>

(***************************************************************************)
(* C15.  Encoding round-trip: after stores into one category whose data    *)
(* holds no two consecutive line breaks, splitting the body at the double  *)
(* line break gives exactly the encoded entries in store order, each       *)
(* header with its own data, and joining the blocks with the delimiter     *)
(* gives the body back.  Stated store by store: onto a body whose blocks   *)
(* are the earlier entries, the store adds one block, the entry.           *)
(***************************************************************************)
BlankLine == <<NL, NL>>

\* The blocks of a body: the parts between blank lines, without the empty
\* part after the last delimiter.
Blocks(body) ==
    LET parts == Split(body, BlankLine) IN SubSeq(parts, 1, Len(parts) - 1)

\* The body ends with a delimiter that closes its last entry.
Closed(body) ==
    LET parts == Split(body, BlankLine) IN parts[Len(parts)] = <<>>

\* Onto a body that ends with a delimiter, the store added exactly the
\* entry, as one block, after the blocks the body had, and the blocks joined
\* give the body.
AddsOneBlock(body, after, data, tags) ==
    \A old \in {Split(body, BlankLine)}, new \in {Split(after, BlankLine)} :
       old[Len(old)] = <<>> =>
          /\ new = SubSeq(old, 1, Len(old) - 1) \o <<HeaderLine(tags) \o data, <<>>>>
          /\ Join(new, BlankLine) = after

StoreAddsOneBlock ==
    \A fsBefore \in {BodyOf(FsResource(files, last'.category, last'.is_global))},
       fsAfter \in {BodyOf(FsResource(files', last'.category, last'.is_global))},
       mmBefore \in {BodyOf(MmResource(localStorage, last'.category, last'.is_global))},
       mmAfter \in {BodyOf(MmResource(localStorage', last'.category, last'.is_global))} :
       /\ AddsOneBlock(fsBefore, fsAfter, last'.data, last'.tags)
       /\ AddsOneBlock(mmBefore, mmAfter, last'.data, last'.tags)

C15_SplitGivesEntries ==
    [][(Served("remember_memory") /\ ~Contains(last'.data, BlankLine))
          => StoreAddsOneBlock]_vars

\* The entries that stay whole: the header line followed by the data holds
\* no blank line and does not end in a line break.
Separable(data, tags) ==
    LET text == HeaderLine(tags) \o data
    IN  /\ ~Contains(text, BlankLine)
        /\ text[Len(text)] # NL

\* C15 as amended: the same, for stores of entries whose header line followed
\* by the data holds no blank line and does not end in a line break.
C15_SplitGivesSeparableEntries ==
    [][(Served("remember_memory") /\ Separable(last'.data, last'.tags))
          => StoreAddsOneBlock]_vars

\* A tagged entry was stored after two others and is the third block of the
\* body.
C15_Witness ==
    /\ last.tool = "remember_memory"
    /\ last.tags # <<>>
    /\ ~reply.fs.isError
    /\ LET body == BodyOf(FsResource(files, last.category, last.is_global))
       IN  /\ Closed(body)
           /\ Len(Blocks(body)) = 3
           /\ Blocks(body)[3] = HeaderLine(last.tags) \o last.data
           /\ body = BodyOf(MmResource(localStorage, last.category, last.is_global))

(***************************************************************************)
(* C16.  Category lifecycle: only a store creates a resource, the one it   *)
(* targets; only removeCategory destroys one, and it destroys those it     *)
(* covers; retrieve and removeEntry neither create nor destroy a resource, *)
(* and a removeEntry that removes every entry leaves an existing, empty    *)
(* resource.  So a resource exists only if a store targeted it after the   *)
(* last removeCategory that covered it.                                    *)
(***************************************************************************)
\* The files and keys that came to exist, and those that ceased to.
CreatedFiles == DOMAIN files' \ DOMAIN files

DestroyedFiles == DOMAIN files \ DOMAIN files'

CreatedKeys == DOMAIN localStorage' \ DOMAIN localStorage

DestroyedKeys == DOMAIN localStorage \ DOMAIN localStorage'

\* The files and keys the removeCategory of the step covers.
CoveredFiles ==
    IF last'.category = Wildcard
    THEN {p \in DOMAIN files : IsUnder(p, BaseDir(last'.is_global))}
    ELSE {MemoryFilePath(last'.category, last'.is_global)} \cap DOMAIN files

CoveredKeys ==
    IF last'.category = Wildcard
    THEN {k \in DOMAIN localStorage : StartsWith(k, StoragePrefix(last'.is_global))}
    ELSE {getStorageKey(last'.category, last'.is_global)} \cap DOMAIN localStorage

C16_Lifecycle ==
    [][/\ CreatedFiles # {} =>
             /\ Served("remember_memory")
             /\ CreatedFiles = {MemoryFilePath(last'.category, last'.is_global)}
       /\ CreatedKeys # {} =>
             /\ Served("remember_memory")
             /\ CreatedKeys = {getStorageKey(last'.category, last'.is_global)}
       /\ DestroyedFiles # {} => Served("remove_memory_category")
       /\ DestroyedKeys # {} => Served("remove_memory_category")
       /\ Served("remove_memory_category") =>
             /\ DestroyedFiles = CoveredFiles
             /\ DestroyedKeys = CoveredKeys
       /\ Served("remember_memory") =>
             /\ MemoryFilePath(last'.category, last'.is_global) \in DOMAIN files'
             /\ getStorageKey(last'.category, last'.is_global) \in DOMAIN localStorage']_vars

\* The first call, removeEntry(y, "hi"), removed the only entry of local y:
\* the file and the key are still there, empty.
C16_Witness ==
    /\ ops = 1
    /\ last.tool = "remove_specific_memory"
    /\ last.category = <<"y">>
    /\ FsResource(files, <<"y">>, FALSE) = <<<<>>>>
    /\ MmResource(localStorage, <<"y">>, FALSE) = <<<<>>>>

(***************************************************************************)
(* The file-backed server with calls in flight together.  A handler is an  *)
(* async function: it runs until an await and resumes when the awaited     *)
(* fs-extra call is done, so the steps of several calls interleave at the  *)
(* awaits.  The methods of the MemoryManager have no await: each runs to   *)
(* its end at once.                                                        *)
(***************************************************************************)
NoResult == Success("pending")

\* The first await of each handler.
FirstAwait(tool) ==
    IF tool = "remember_memory" THEN "appendFile" ELSE "pathExists"

\* A call as it is received: its arguments, the await it stands at, the
\* content it has read, its result.
Call(tool, category, memory, memory_content, is_global) ==
    [tool |-> tool, category |-> category, data |-> memory.data, tags |-> memory.tags,
     memory_content |-> memory_content, is_global |-> is_global,
     pc |-> FirstAwait(tool), content |-> <<>>, result |-> NoResult]

ConcurrentArgs ==
    {Call("remember_memory", <<"x">>, m, <<>>, FALSE) :
        m \in {Memory(<<"h", "i">>, <<>>), Memory(<<"y", "o">>, <<<<"t">>>>)}}
    \cup {Call("remove_specific_memory", <<"x">>, NoMemory, mc, FALSE) :
             mc \in {<<"h", "i">>}}
    \cup {Call("remove_memory_category", <<"x">>, NoMemory, <<>>, FALSE)}

\* The text remove_specific_memory writes back: computed from the content
\* it read.
NewContentRereading(fs, call) ==
    RemoveMatching(fs[MemoryFilePath(call.category, call.is_global)], call.memory_content)

NewContent(fs, call) == RemoveMatching(call.content, call.memory_content)

Done(call, result) == [call EXCEPT !.pc = "done", !.result = result]

\* A request arrives and its handler is called.
Receive(call) ==
    /\ Len(inflight) < MaxOps
    /\ inflight' = Append(inflight, call)
    /\ UNCHANGED <<files, localStorage, stored, last, reply, ops>>

\* remember_memory: await fs.appendFile(memoryFilePath, content)
AppendStep(i) ==
    /\ inflight[i].pc = "appendFile"
    /\ LET c == inflight[i]
           r == remember_memory(files, c.category, c.data, c.tags, c.is_global)
       IN  /\ files' = r.files
           /\ inflight' = [inflight EXCEPT ![i] = Done(c, r.result)]
    /\ UNCHANGED <<localStorage, stored, last, reply, ops>>

\* remove_specific_memory and remove_memory_category:
\* await fs.pathExists(memoryFilePath)
ExistsStep(i) ==
    /\ inflight[i].pc = "pathExists"
    /\ LET c == inflight[i]
       IN  inflight' = [inflight EXCEPT ![i] =
              IF PathExists(files, MemoryFilePath(c.category, c.is_global))
              THEN [c EXCEPT !.pc = IF c.tool = "remove_specific_memory"
                                    THEN "readFile" ELSE "remove"]
              ELSE Done(c, Success("removed"))]
    /\ UNCHANGED <<files, localStorage, stored, last, reply, ops>>

\* remove_specific_memory: await fs.readFile(memoryFilePath, 'utf-8'), which
\* throws when the file is gone.
ReadStep(i) ==
    /\ inflight[i].pc = "readFile"
    /\ LET c == inflight[i]
           memoryFilePath == MemoryFilePath(c.category, c.is_global)
       IN  inflight' = [inflight EXCEPT ![i] =
              IF memoryFilePath \in DOMAIN files
              THEN [c EXCEPT !.pc = "writeFile", !.content = files[memoryFilePath]]
              ELSE Done(c, Failure("ENOENT"))]
    /\ UNCHANGED <<files, localStorage, stored, last, reply, ops>>

\* remove_specific_memory: await fs.writeFile(memoryFilePath, newContent)
WriteStep(i) ==
    /\ inflight[i].pc = "writeFile"
    /\ LET c == inflight[i]
       IN  /\ files' = WriteFile(files, MemoryFilePath(c.category, c.is_global),
                                 NewContent(files, c))
           /\ inflight' = [inflight EXCEPT ![i] = Done(c, Success("removed"))]
    /\ UNCHANGED <<localStorage, stored, last, reply, ops>>

\* remove_memory_category: await fs.remove(memoryFilePath)
RemoveStep(i) ==
    /\ inflight[i].pc = "remove"
    /\ LET c == inflight[i]
       IN  /\ files' = RemoveFile(files, MemoryFilePath(c.category, c.is_global))
           /\ inflight' = [inflight EXCEPT ![i] = Done(c, Success("cleared"))]
    /\ UNCHANGED <<localStorage, stored, last, reply, ops>>

NextConcurrent ==
    \/ \E call \in ConcurrentArgs : Receive(call)
    \/ \E i \in 1..Len(inflight) : AppendStep(i)
    \/ \E i \in 1..Len(inflight) : ExistsStep(i)
    \/ \E i \in 1..Len(inflight) : ReadStep(i)
    \/ \E i \in 1..Len(inflight) : WriteStep(i)
    \/ \E i \in 1..Len(inflight) : RemoveStep(i)

SpecConcurrent == Init /\ [][NextConcurrent]_vars

(***************************************************************************)
(* C17.  The read-modify-write of removeEntry is not atomic: what it       *)
(* writes back is made of the blocks of the body it read, so an entry that *)
(* a store appended between the read and the write-back is dropped; a      *)
(* state is reachable in which both calls returned success and the stored  *)
(* entry, which does not contain memory_content, is absent from the        *)
(* resource.                                                               *)
(***************************************************************************)
\* Call i does its write-back in this step.
WritesBack(i) ==
    /\ i <= Len(inflight)
    /\ inflight[i].pc = "writeFile"
    /\ inflight'[i].pc = "done"

C17_WriteBackDropsLaterAppends ==
    [][\A i \in 1..MaxOps :
          WritesBack(i) =>
             LET c == inflight[i]
                 memoryFilePath == MemoryFilePath(c.category, c.is_global)
             IN  /\ ~inflight'[i].result.isError
                 /\ files'[memoryFilePath]
                       = Join(BlocksWithout(c.content, c.memory_content), BlankLine)]_vars

\* The lost update: a removeEntry and a store of an entry without
\* memory_content, both to local x, have returned success, no other call
\* was made, and the stored entry is not in the file.
C17_Witness ==
    \E i \in 1..Len(inflight), j \in 1..Len(inflight) :
        /\ Len(inflight) = 2
        /\ inflight[i].tool = "remove_specific_memory"
        /\ inflight[j].tool = "remember_memory"
        /\ inflight[i].pc = "done" /\ ~inflight[i].result.isError
        /\ inflight[j].pc = "done" /\ ~inflight[j].result.isError
        /\ ~Contains(EntryText(inflight[j].data, inflight[j].tags), inflight[i].memory_content)
        /\ FsResource(files, <<"x">>, FALSE) # <<>>
        /\ ~Contains(BodyOf(FsResource(files, <<"x">>, FALSE)),
                     HeaderLine(inflight[j].tags) \o inflight[j].data)

(***************************************************************************)
(* C18.  With an atomic append, whatever the interleaving of concurrent    *)
(* stores to one category, and no remove in flight, every entry stored is  *)
(* in the body exactly once and whole: the body is what earlier sessions   *)
(* left, followed by the entries of the stores that have returned, in      *)
(* some order.                                                             *)
(***************************************************************************)
\* The stores that have returned.
Returned == {i \in 1..Len(inflight) : inflight[i].pc = "done"}

\* The ways to put the elements of a set in a row.
Orders(S) ==
    {f \in [1..Cardinality(S) -> S] : \A a, b \in 1..Cardinality(S) : f[a] = f[b] => a = b}

\* The entries of the calls, in the given order, one after the other.
RECURSIVE EntriesInOrder(_)
EntriesInOrder(order) ==
    IF order = <<>> THEN <<>>
    ELSE EntryText(inflight[Head(order)].data, inflight[Head(order)].tags)
         \o EntriesInOrder(Tail(order))

C18_ConcurrentStoresAllKept ==
    (\A i \in 1..Len(inflight) :
        /\ inflight[i].tool = "remember_memory"
        /\ ~inflight[i].result.isError)
    => \E earlier \in EarlierSessions, order \in Orders(Returned) :
          BodyOf(FsResource(files, <<"x">>, FALSE))
             = BodyOf(FsResource(FilesAfter(<<>>, earlier), <<"x">>, FALSE))
               \o EntriesInOrder(order)

\* Two different stores to local x have returned; the one received second
\* was appended first, and both entries are at the end of the body.
C18_Witness ==
    /\ Len(inflight) = 2
    /\ \A i \in 1..2 : inflight[i].tool = "remember_memory" /\ inflight[i].pc = "done"
    /\ inflight[1].data # inflight[2].data
    /\ LET body == BodyOf(FsResource(files, <<"x">>, FALSE))
           tail == EntryText(inflight[2].data, inflight[2].tags)
                   \o EntryText(inflight[1].data, inflight[1].tags)
       IN  /\ Len(body) > Len(tail)
           /\ SubSeq(body, Len(body) - Len(tail) + 1, Len(body)) = tail

(***************************************************************************)
(* C19.  Wildcard and single-category retrieve agree: for every scope and  *)
(* every category c that store accepts, c is a key of retrieve("*", scope) *)
(* exactly when retrieve(c, scope) is not empty, and its value there is    *)
(* the line lists of the groups of retrieve(c, scope), one after the       *)
(* other.                                                                  *)
(***************************************************************************)
Agree(all, view, c) ==
    /\ HasKey(all, c) <=> view # EmptyObject
    /\ HasKey(all, c) => Get(all, c) = Flat(ObjectValues(view))

C19_WildcardAgreesWithSingle ==
    \A g \in Scopes, c \in ConcreteCategories \cup {Dotted} :
        /\ Agree(FsView(files, Wildcard, g), FsView(files, c, g), c)
        /\ Agree(MmView(localStorage, Wildcard, g), MmView(localStorage, c, g), c)

(***************************************************************************)
(* C20.  The file-backed server and the MemoryManager implement the same   *)
(* store: both started empty and given the same valid calls one at a time, *)
(* with no storage failure, every retrieve, of a category or of "*",       *)
(* returns the same mapping in both.                                       *)
(***************************************************************************)
\* The same keys with the same lines, whatever the order of the keys.
SameMapping(a, b) ==
    /\ Keys(a) = Keys(b)
    /\ \A k \in Keys(a) : LinesOf(a, k) = LinesOf(b, k)

C20_SameStore ==
    [][(last'.tool = "retrieve_memories" /\ ValidCategory(last'.category)) =>
          /\ ~reply'.fs.isError /\ ~reply'.mm.isError
          /\ SameMapping(reply'.fs.memories, reply'.mm.memories)]_vars

(***************************************************************************)
(* C21.  Store then remove by the same text undoes the store: when data    *)
(* holds no two consecutive line breaks and no entry of (scope, category)  *)
(* contains data, store(category, data, tags, scope) followed by           *)
(* removeEntry(category, data, scope) leaves retrieve(category, scope)     *)
(* with the mapping it had before the store, for every tag sequence.       *)
(* Stated at the store: the removeEntry of the data stored, served on what *)
(* the store left, gives back the view of before.                          *)
(***************************************************************************)
\* No block of the body contains the part.
NoEntryContains(body, part) ==
    \A blocks \in {Split(body, Delimiter)} :
       \A i \in 1..Len(blocks) : ~Contains(blocks[i], part)

\* What the file-backed server holds after a removeEntry call.
FsAfterRemoveEntry(fs, category, memory_content, is_global) ==
    IF ValidRemoveSpecific(category, memory_content)
    THEN remove_specific_memory(fs, category, memory_content, is_global).files
    ELSE fs

\* What the MemoryManager holds after a removeEntry call.
MmAfterRemoveEntry(ls, category, memory_content, is_global) ==
    IF ValidRemoveSpecific(category, memory_content)
    THEN MmRemoveSpecificMemory(ls, category, memory_content, is_global).storage
    ELSE ls

\* removeEntry of the data just stored gives back the view of before the
\* store, in each implementation whose resource held no entry with the data.
RemoveUndoesStore ==
    \A c \in {last'.category}, g \in {last'.is_global}, d \in {last'.data} :
       /\ \A body \in {BodyOf(FsResource(files, c, g))} :
             NoEntryContains(body, d) =>
                \A before \in {FsView(files, c, g)},
                   after \in {FsView(FsAfterRemoveEntry(files', c, d, g), c, g)} :
                   SameMapping(after, before)
       /\ \A body \in {BodyOf(MmResource(localStorage, c, g))} :
             NoEntryContains(body, d) =>
                \A before \in {MmView(localStorage, c, g)},
                   after \in {MmView(MmAfterRemoveEntry(localStorage', c, d, g), c, g)} :
                   SameMapping(after, before)

Deleted(i) ==
    /\ inflight[i].tool = "remove_memory_category"
    /\ inflight[i].pc = "done"
    /\ ~inflight[i].result.isError

\* No store was received.
NoStoreReceived == \A j \in 1..Len(inflight) : inflight[j].tool # "remember_memory"

C22_DeletionStays ==
    \A i \in 1..Len(inflight) :
        (Deleted(i) /\ NoStoreReceived) =>
            /\ FsResource(files, inflight[i].category, inflight[i].is_global) = <<>>
            /\ FsView(files, inflight[i].category, inflight[i].is_global) = EmptyObject

(***************************************************************************)
(* C23.  removeEntry only shrinks what is visible: for every group key,    *)
(* the line list retrieve(category, scope) returns after                   *)
(* removeEntry(category, memory_content, scope) is a subsequence of the    *)
(* list it returned for that key before; no line and no group key appears  *)
(* that retrieve did not return before the call.                           *)
(***************************************************************************)
\* Every key of the later view is a key of the earlier one, with lines that
\* are the earlier lines with some left out.
Shrinks(before, after) ==
    \A k \in Keys(after) :
        /\ HasKey(before, k)
        /\ IsSubsequence(LinesOf(after, k), LinesOf(before, k))

C23_RemoveEntryOnlyShrinks ==
    [][Served("remove_specific_memory") =>
          \A c \in {last'.category}, g \in {last'.is_global} :
          \A fsBefore \in {FsView(files, c, g)}, fsAfter \in {FsView(files', c, g)},
             mmBefore \in {MmView(localStorage, c, g)},
             mmAfter \in {MmView(localStorage', c, g)} :
             /\ Shrinks(fsBefore, fsAfter)
             /\ Shrinks(mmBefore, mmAfter)]_vars

=============================================================================
